---- MODULE Spec2Model ----
(***************************************************************************)
(* Greedy nearest-neighbour scheduler of vrp.py: main()'s scheduling loop  *)
(* and closing step over the data frame built from the input loads.        *)
(* Coordinates are distance units (one unit is one minute of driving),     *)
(* times are hours.                                                        *)
(***************************************************************************)
EXTENDS Integers, Sequences, FiniteSets, TLC

VARIABLES df, drivers, loadsScheduled, pc, iterations

vars == <<df, drivers, loadsScheduled, pc, iterations>>

(***************************************************************************)
(* Bounds and program constants                                            *)
(***************************************************************************)
\* largest number of loads in an input file
MaxLoads == 3

\* largest number of loads in the inputs of the runs checked for termination
MaxLiveLoads == 2

\* the drive-time cap of findNextSchedule
MaxDriveHours == 12

\* distance units per hour in calculateHours
UnitsPerHour == 60

\* the home coordinate main() gives every row
Home == <<0, 0>>

\* Waypoints the inputs are drawn from.  Every distance between two of them
\* is a whole number of hours (300, 360, 480 or 600 units), so math.sqrt and
\* the floating-point sums of the program are exact on them.
Pickups == {<<0, 0>>, <<360, 0>>, <<180, 240>>}

Dropoffs == {<<0, 0>>, <<360, 0>>, <<0, 480>>}

(***************************************************************************)
(* calculateHours                                                          *)
(***************************************************************************)
RECURSIVE SqrtIter(_, _)
SqrtIter(n, x) ==
    LET y == (x + (n \div x)) \div 2
    IN  IF y >= x THEN x ELSE SqrtIter(n, y)

\* math.sqrt on the squared lengths the model meets (all perfect squares)
Sqrt(n) == IF n = 0 THEN 0 ELSE SqrtIter(n, n)

RECURSIVE SumMinutes(_, _)
SumMinutes(routes, i) ==
    IF i > Len(routes) THEN 0
    ELSE LET source == routes[i][1]
             destination == routes[i][2]
         IN  Sqrt((destination[1] - source[1]) * (destination[1] - source[1])
                  + (destination[2] - source[2]) * (destination[2] - source[2]))
             + SumMinutes(routes, i + 1)

CalculateHours(routes) == SumMinutes(routes, 1) \div UnitsPerHour

(***************************************************************************)
(* Driver, RouteTime                                                       *)
(***************************************************************************)
Driver == [loads |-> <<>>, driveHours |-> 0, isScheduling |-> TRUE]

RouteTime(loadNumber, currentDropoffToNextDropoff, dropoffToHome) ==
    [loadNumber |-> loadNumber,
     currentDropoffToNextDropoff |-> currentDropoffToNextDropoff,
     dropoffToHome |-> dropoffToHome,
     currentDropoffToNextDropoffToHome |->
         currentDropoffToNextDropoff + dropoffToHome]

\* Python's None, as a value comparable with a RouteTime
None == [loadNumber |-> -1,
         currentDropoffToNextDropoff |-> -1,
         dropoffToHome |-> -1,
         currentDropoffToNextDropoffToHome |-> -1]

\* min() of an empty list raises ValueError
ValueError == [loadNumber |-> -2,
               currentDropoffToNextDropoff |-> -2,
               dropoffToHome |-> -2,
               currentDropoffToNextDropoffToHome |-> -2]

\* .iloc[0] of an empty frame raises IndexError
IndexError == [loadNumber |-> -3]

(***************************************************************************)
(* Sequence helpers                                                        *)
(***************************************************************************)
Range(s) == {s[i] : i \in 1..Len(s)}

RECURSIVE FilterIdx(_, _, _)
\* the indices i..n of a sequence for which keep[i] holds, in order
FilterIdx(keep, i, n) ==
    IF i > n THEN <<>>
    ELSE IF keep[i] THEN <<i>> \o FilterIdx(keep, i + 1, n)
         ELSE FilterIdx(keep, i + 1, n)

(***************************************************************************)
(* findSchedulingDriver: index of the first driver still scheduling, 0 for *)
(* None                                                                    *)
(***************************************************************************)
\* a findSchedulingDriver that does not look at isScheduling
FindSchedulingDriverAny(ds) == IF Len(ds) > 0 THEN 1 ELSE 0

FindSchedulingDriver(ds) ==
    IF \E i \in 1..Len(ds) : ds[i].isScheduling
    THEN CHOOSE i \in 1..Len(ds) :
             /\ ds[i].isScheduling
             /\ \A j \in 1..(i - 1) : ~ds[j].isScheduling
    ELSE 0

(***************************************************************************)
(* buildRouteTimes and the columns main() adds to the data frame           *)
(***************************************************************************)
RouteTimesForRow(rows, currentIndex) ==
    LET others == FilterIdx([nextIndex \in 1..Len(rows) |-> currentIndex # nextIndex],
                            1, Len(rows))
    IN  [k \in 1..Len(others) |->
            LET currentRow == rows[currentIndex]
                nextRow == rows[others[k]]
            IN  RouteTime(nextRow.loadNumber,
                          CalculateHours(<< <<currentRow.dropoff, nextRow.pickup>>,
                                            <<nextRow.pickup, nextRow.dropoff>> >>),
                          CalculateHours(<< <<nextRow.dropoff, nextRow.home>> >>))]

BuildRouteTimes(rows) == [i \in 1..Len(rows) |-> RouteTimesForRow(rows, i)]

\* the data frame after lines 174-200, from the parsed rows of the input
BuildFrame(input) ==
    LET rows == [i \in 1..Len(input) |->
                    [loadNumber |-> input[i].loadNumber,
                     pickup |-> input[i].pickup,
                     dropoff |-> input[i].dropoff,
                     home |-> Home]]
        routeTimes == BuildRouteTimes(rows)
    IN  [i \in 1..Len(rows) |->
            [loadNumber |-> rows[i].loadNumber,
             pickup |-> rows[i].pickup,
             dropoff |-> rows[i].dropoff,
             home |-> rows[i].home,
             homeToDropoff |-> CalculateHours(<< <<rows[i].home, rows[i].pickup>>,
                                                 <<rows[i].pickup, rows[i].dropoff>> >>),
             dropoffToHome |-> CalculateHours(<< <<rows[i].dropoff, rows[i].home>> >>),
             routeTimes |-> routeTimes[i]]]

\* df.loc[df["loadNumber"] == loadNumber].iloc[0]
RowOf(frame, loadNumber) ==
    frame[CHOOSE i \in 1..Len(frame) :
              /\ frame[i].loadNumber = loadNumber
              /\ \A j \in 1..(i - 1) : frame[j].loadNumber # loadNumber]

(***************************************************************************)
(* Inputs: files of at most MaxLoads loads with unique load numbers, given *)
(* in ascending or in descending order of load number                      *)
(***************************************************************************)
LoadNumberOrders(n) ==
    {[i \in 1..n |-> i], [i \in 1..n |-> n + 1 - i]}

Inputs(n) ==
    {[i \in 1..n |-> [loadNumber |-> order[i],
                      pickup |-> pick[i],
                      dropoff |-> drop[i]]] :
        order \in LoadNumberOrders(n),
        pick \in [1..n -> Pickups],
        drop \in [1..n -> Dropoffs]}

(***************************************************************************)
(* First assignment: the first row of smallest homeToDropoff among the     *)
(* rows not yet scheduled (nsmallest keeps the first of equal rows)        *)
(***************************************************************************)
\* a FirstRoute that forgets the "not in @loadsScheduled" filter
FirstRouteAnyRow(frame, scheduled) ==
    LET open == 1..Len(frame)
    IN  IF open = {} THEN IndexError
        ELSE frame[CHOOSE i \in open :
                  \A j \in open :
                      \/ frame[i].homeToDropoff < frame[j].homeToDropoff
                      \/ (frame[i].homeToDropoff = frame[j].homeToDropoff /\ i <= j)]

\* a first assignment that takes, of equal rows, the smallest load number
FirstRouteByLoadNumber(frame, scheduled) ==
    LET open == {i \in 1..Len(frame) : frame[i].loadNumber \notin Range(scheduled)}
    IN  IF open = {} THEN IndexError
        ELSE frame[CHOOSE i \in open :
                  \A j \in open :
                      \/ frame[i].homeToDropoff < frame[j].homeToDropoff
                      \/ (frame[i].homeToDropoff = frame[j].homeToDropoff
                             /\ frame[i].loadNumber <= frame[j].loadNumber)]

FirstRoute(frame, scheduled) ==
    LET open == {i \in 1..Len(frame) : frame[i].loadNumber \notin Range(scheduled)}
    IN  IF open = {} THEN IndexError
        ELSE frame[CHOOSE i \in open :
                  \A j \in open :
                      \/ frame[i].homeToDropoff < frame[j].homeToDropoff
                      \/ (frame[i].homeToDropoff = frame[j].homeToDropoff /\ i <= j)]

(***************************************************************************)
(* findNextSchedule                                                        *)
(***************************************************************************)
NextSchedules(currentLoad, frame, scheduled) ==
    LET routeTimes == RowOf(frame, currentLoad).routeTimes
        at == FilterIdx([k \in 1..Len(routeTimes) |->
                            routeTimes[k].loadNumber \notin Range(scheduled)],
                        1, Len(routeTimes))
    IN  [k \in 1..Len(at) |-> routeTimes[at[k]]]

\* a min that takes, of equal elements, the smallest load number
MinScheduleByLoadNumber(nextSchedules) ==
    nextSchedules[CHOOSE i \in 1..Len(nextSchedules) :
        \A j \in 1..Len(nextSchedules) :
            \/ nextSchedules[i].currentDropoffToNextDropoffToHome
                   < nextSchedules[j].currentDropoffToNextDropoffToHome
            \/ (nextSchedules[i].currentDropoffToNextDropoffToHome
                   = nextSchedules[j].currentDropoffToNextDropoffToHome
                 /\ nextSchedules[i].loadNumber <= nextSchedules[j].loadNumber)]

\* a min keyed by currentDropoffToNextDropoff, the way home left out
MinScheduleByLeg(nextSchedules) ==
    nextSchedules[CHOOSE i \in 1..Len(nextSchedules) :
        \A j \in 1..Len(nextSchedules) :
            \/ nextSchedules[i].currentDropoffToNextDropoff
                   < nextSchedules[j].currentDropoffToNextDropoff
            \/ (nextSchedules[i].currentDropoffToNextDropoff
                   = nextSchedules[j].currentDropoffToNextDropoff /\ i <= j)]

\* min(list, key): the first element of smallest key
MinSchedule(nextSchedules) ==
    nextSchedules[CHOOSE i \in 1..Len(nextSchedules) :
        \A j \in 1..Len(nextSchedules) :
            \/ nextSchedules[i].currentDropoffToNextDropoffToHome
                   < nextSchedules[j].currentDropoffToNextDropoffToHome
            \/ (nextSchedules[i].currentDropoffToNextDropoffToHome
                   = nextSchedules[j].currentDropoffToNextDropoffToHome /\ i <= j)]

\* a findNextSchedule without the test of line 142
FindNextScheduleNoCap(currentLoad, frame, driver, scheduled) ==
    LET nextSchedules == NextSchedules(currentLoad, frame, scheduled)
    IN  IF Len(nextSchedules) = 0 THEN ValueError
        ELSE MinSchedule(nextSchedules)

\* a findNextSchedule that tests the hours to the next dropoff, the way home
\* left out
FindNextScheduleLegTest(currentLoad, frame, driver, scheduled) ==
    LET nextSchedules == NextSchedules(currentLoad, frame, scheduled)
    IN  IF Len(nextSchedules) = 0 THEN ValueError
        ELSE LET nextSchedule == MinSchedule(nextSchedules)
             IN  IF driver.driveHours
                        + nextSchedule.currentDropoffToNextDropoff > MaxDriveHours
                 THEN None
                 ELSE nextSchedule

\* a findNextSchedule that refuses a candidate reaching the cap exactly
FindNextScheduleStrict(currentLoad, frame, driver, scheduled) ==
    LET nextSchedules == NextSchedules(currentLoad, frame, scheduled)
    IN  IF Len(nextSchedules) = 0 THEN ValueError
        ELSE LET nextSchedule == MinSchedule(nextSchedules)
             IN  IF driver.driveHours
                        + nextSchedule.currentDropoffToNextDropoffToHome >= MaxDriveHours
                 THEN None
                 ELSE nextSchedule

FindNextSchedule(currentLoad, frame, driver, scheduled) ==
    LET nextSchedules == NextSchedules(currentLoad, frame, scheduled)
    IN  IF Len(nextSchedules) = 0 THEN ValueError
        ELSE LET nextSchedule == MinSchedule(nextSchedules)
             IN  IF driver.driveHours
                        + nextSchedule.currentDropoffToNextDropoffToHome > MaxDriveHours
                 THEN None
                 ELSE nextSchedule

(***************************************************************************)
(* applySchedule                                                           *)
(***************************************************************************)
\* an applySchedule that puts the load at the head of the route
ApplyScheduleDriverAtHead(driver, loadNumber, hours) ==
    [driver EXCEPT !.loads = <<loadNumber>> \o @,
                   !.driveHours = @ + hours]

ApplyScheduleDriver(driver, loadNumber, hours) ==
    [driver EXCEPT !.loads = Append(@, loadNumber),
                   !.driveHours = @ + hours]

ApplyScheduleScheduled(scheduled, loadNumber) == Append(scheduled, loadNumber)

\* a finalization that leaves isScheduling set
FinalizeDriverStillScheduling(frame, driver) ==
    [driver EXCEPT !.driveHours = @ + RowOf(frame, driver.loads[Len(driver.loads)]).dropoffToHome]

\* lines 242-244 and 256-259: charge the way home of the last load, stop scheduling
FinalizeDriver(frame, driver) ==
    [driver EXCEPT !.driveHours = @ + RowOf(frame, driver.loads[Len(driver.loads)]).dropoffToHome,
                   !.isScheduling = FALSE]

(***************************************************************************)
(* main()                                                                  *)
(***************************************************************************)
\* the state at line 207, first reached: the frame of an input of at most
\* maxLoads loads, no driver, nothing scheduled
InitOver(maxLoads) ==
    /\ \E n \in 0..maxLoads : \E input \in Inputs(n) : df = BuildFrame(input)
    /\ drivers = <<>>
    /\ loadsScheduled = <<>>
    /\ pc = "loop"
    /\ iterations = 0

Init == InitOver(MaxLoads)

LiveInit == InitOver(MaxLiveLoads)

\* a loop condition that runs one more iteration
LoopConditionLate == Len(loadsScheduled) <= Len(df)

\* a loop condition that stops one load early
LoopConditionEarly == Len(loadsScheduled) < Len(df) - 1

\* the loop condition of line 207
LoopCondition == Len(loadsScheduled) < Len(df)

\* an iteration that makes a new driver whether or not one is scheduling
DriversAlwaysNew(ds) == Append(ds, Driver)

\* lines 208-211: the drivers list once the iteration has its driver
DriversWithScheduling(ds) ==
    IF FindSchedulingDriver(ds) = 0 THEN Append(ds, Driver) ELSE ds

\* one iteration whose driver has no loads yet (lines 208-229)
FirstAssignment ==
    /\ pc = "loop"
    /\ LoopCondition
    /\ LET ds == DriversWithScheduling(drivers)
           d == FindSchedulingDriver(ds)
       IN  /\ Len(ds[d].loads) = 0
           /\ LET firstRoute == FirstRoute(df, loadsScheduled)
              IN  IF firstRoute = IndexError
                  THEN /\ pc' = "error"
                       /\ drivers' = ds
                       /\ UNCHANGED loadsScheduled
                  ELSE /\ loadsScheduled' =
                            ApplyScheduleScheduled(loadsScheduled, firstRoute.loadNumber)
                       /\ drivers' = [ds EXCEPT ![d] =
                            ApplyScheduleDriver(ds[d], firstRoute.loadNumber,
                                                firstRoute.homeToDropoff)]
                       /\ UNCHANGED pc
    /\ iterations' = iterations + 1
    /\ UNCHANGED df

\* a continuation that charges the candidate's hours with its way home
ContinuationChargingHome ==
    /\ pc = "loop"
    /\ LoopCondition
    /\ LET ds == DriversWithScheduling(drivers)
           d == FindSchedulingDriver(ds)
       IN  /\ Len(ds[d].loads) # 0
           /\ LET lastScheduledLoad == ds[d].loads[Len(ds[d].loads)]
                  nextSchedule == FindNextSchedule(lastScheduledLoad, df, ds[d],
                                                   loadsScheduled)
              IN  IF nextSchedule = ValueError
                  THEN /\ pc' = "error"
                       /\ drivers' = ds
                       /\ UNCHANGED loadsScheduled
                  ELSE IF nextSchedule = None
                  THEN /\ drivers' = [ds EXCEPT ![d] = FinalizeDriver(df, ds[d])]
                       /\ UNCHANGED <<loadsScheduled, pc>>
                  ELSE /\ loadsScheduled' =
                            ApplyScheduleScheduled(loadsScheduled, nextSchedule.loadNumber)
                       /\ drivers' = [ds EXCEPT ![d] =
                            ApplyScheduleDriver(ds[d], nextSchedule.loadNumber,
                                nextSchedule.currentDropoffToNextDropoffToHome)]
                       /\ UNCHANGED pc
    /\ iterations' = iterations + 1
    /\ UNCHANGED df

\* one iteration whose driver has loads (lines 208-211, 231-252)
Continuation ==
    /\ pc = "loop"
    /\ LoopCondition
    /\ LET ds == DriversWithScheduling(drivers)
           d == FindSchedulingDriver(ds)
       IN  /\ Len(ds[d].loads) # 0
           /\ LET lastScheduledLoad == ds[d].loads[Len(ds[d].loads)]
                  nextSchedule == FindNextSchedule(lastScheduledLoad, df, ds[d],
                                                   loadsScheduled)
              IN  IF nextSchedule = ValueError
                  THEN /\ pc' = "error"
                       /\ drivers' = ds
                       /\ UNCHANGED loadsScheduled
                  ELSE IF nextSchedule = None
                  THEN /\ drivers' = [ds EXCEPT ![d] = FinalizeDriver(df, ds[d])]
                       /\ UNCHANGED <<loadsScheduled, pc>>
                  ELSE /\ loadsScheduled' =
                            ApplyScheduleScheduled(loadsScheduled, nextSchedule.loadNumber)
                       /\ drivers' = [ds EXCEPT ![d] =
                            ApplyScheduleDriver(ds[d], nextSchedule.loadNumber,
                                                nextSchedule.currentDropoffToNextDropoff)]
                       /\ UNCHANGED pc
    /\ iterations' = iterations + 1
    /\ UNCHANGED df

\* line 207 finds its condition false
LoopExit ==
    /\ pc = "loop"
    /\ ~LoopCondition
    /\ pc' = "close"
    /\ UNCHANGED <<df, drivers, loadsScheduled, iterations>>

\* a program without the closing step
ClosingSkipped ==
    /\ pc = "close"
    /\ pc' = IF FindSchedulingDriver(drivers) = 0 THEN "error" ELSE "done"
    /\ UNCHANGED <<df, drivers, loadsScheduled, iterations>>

\* lines 255-259; driver.loads on None and loads[-1] of an empty list raise
Closing ==
    /\ pc = "close"
    /\ LET d == FindSchedulingDriver(drivers)
       IN  IF d = 0 \/ Len(drivers[d].loads) = 0
           THEN /\ pc' = "error"
                /\ UNCHANGED drivers
           ELSE /\ drivers' = [drivers EXCEPT ![d] = FinalizeDriver(df, drivers[d])]
                /\ pc' = "done"
    /\ UNCHANGED <<df, loadsScheduled, iterations>>

Next == FirstAssignment \/ Continuation \/ LoopExit \/ Closing

Spec == Init /\ [][Next]_vars

\* main() is one sequential thread: it keeps running until it returns or raises
LiveSpec == LiveInit /\ [][Next]_vars /\ WF_vars(Next)

(***************************************************************************)
(* Vocabulary of the properties                                            *)
(***************************************************************************)
LoadNumbers == {df[i].loadNumber : i \in 1..Len(df)}

DriverIds == 1..Len(drivers)

\* the places <<driver, position>> of the routes that hold loadNumber
PlacesOf(loadNumber) ==
    {<<d, k>> \in DriverIds \X (1..MaxLoads + 1) :
        k <= Len(drivers[d].loads) /\ drivers[d].loads[k] = loadNumber}

HomeToDropoff(loadNumber) == RowOf(df, loadNumber).homeToDropoff

DropoffToHome(loadNumber) == RowOf(df, loadNumber).dropoffToHome

LastLoad(driver) == driver.loads[Len(driver.loads)]

\* C1: when a run completes, every load number of the input is at exactly
\* one place of exactly one driver's route, and the routes hold nothing else.
C1_Partition ==
    pc = "done" =>
        /\ \A loadNumber \in LoadNumbers : Cardinality(PlacesOf(loadNumber)) = 1
        /\ \A d \in DriverIds : Range(drivers[d].loads) \subseteq LoadNumbers

C1_Witness ==
    /\ pc = "done"
    /\ Len(df) = 3
    /\ Len(drivers) = 2
    /\ \E d \in DriverIds : Len(drivers[d].loads) = 2

\* C2 as stated: a driver that is still scheduling (whose driveHours are those
\* right after its last append, the way home not yet charged) never has more
\* than 12 hours, whichever assignment appended the load.
C2_CapAfterEveryAssignment ==
    \A d \in DriverIds :
        drivers[d].isScheduling => drivers[d].driveHours <= MaxDriveHours

\* C2 amended: after every continuation the driver's driveHours are at most
\* 12, and after a first assignment they are the load's homeToDropoff, which
\* is above 12 only when that load alone is.
C2_CapAfterContinuation ==
    \A d \in DriverIds :
        drivers[d].isScheduling =>
            \/ drivers[d].driveHours <= MaxDriveHours
            \/ /\ Len(drivers[d].loads) = 1
               /\ HomeToDropoff(drivers[d].loads[1]) > MaxDriveHours
               /\ drivers[d].driveHours = HomeToDropoff(drivers[d].loads[1])

C2_Witness ==
    \E d \in DriverIds :
        /\ drivers[d].isScheduling
        /\ Len(drivers[d].loads) = 3
        /\ drivers[d].driveHours = MaxDriveHours

\* C3: on an input without loads the run makes no driver and does not end
\* in an error.
C3_EmptyInputClean ==
    Len(df) = 0 => (drivers = <<>> /\ pc # "error")

\* every load number of the input is in loadsScheduled
AllAssigned == LoadNumbers \subseteq Range(loadsScheduled)

\* C4: the scheduling loop is left in every run, and a step leaves it exactly
\* when every load is assigned.
C4_Termination ==
    /\ <>(pc = "close")
    /\ [][(pc = "loop" /\ pc' # "loop") <=> (pc = "loop" /\ AllAssigned)]_vars

C4_Witness ==
    /\ pc = "close"
    /\ Len(df) = 2
    /\ iterations > Len(df)
    /\ AllAssigned

\* drivers finalized by the loop itself (the closing step finalizes one more)
FinalizedInLoop ==
    Cardinality({d \in DriverIds : ~drivers[d].isScheduling})
        - (IF pc = "done" THEN 1 ELSE 0)

\* C5 as stated: every iteration commits one load, so after any number of
\* iterations as many loads are assigned, and there are at most N iterations.
C5_OneLoadPerIteration ==
    /\ iterations = Len(loadsScheduled)
    /\ iterations <= Len(df)

\* C5 amended: every iteration either commits exactly one load or commits
\* none and finalizes the scheduling driver; the loop makes at most 2N - 1
\* iterations for N >= 1 loads, and none for N = 0.
C5_LoadOrFinalizationPerIteration ==
    /\ iterations = Len(loadsScheduled) + FinalizedInLoop
    /\ Len(loadsScheduled) <= Len(df)
    /\ IF Len(df) = 0 THEN iterations = 0 ELSE iterations <= 2 * Len(df) - 1

C5_Witness ==
    /\ pc = "close"
    /\ Len(df) = 3
    /\ iterations = 2 * Len(df) - 1

\* the driver holds a load whose homeToDropoff alone is above the cap
Oversized(loadNumber) == HomeToDropoff(loadNumber) > MaxDriveHours

\* C6: a load whose homeToDropoff is above 12 is the only load of its route
\* in every state, the next step that changes the drivers finalizes its
\* driver without appending to it, and a completed run has it in a route.
C6_OversizedSoleLoad ==
    /\ [](\A d \in DriverIds :
            (\E k \in 1..Len(drivers[d].loads) : Oversized(drivers[d].loads[k]))
                => Len(drivers[d].loads) = 1)
    /\ [](pc = "done" =>
            \A loadNumber \in LoadNumbers :
                Oversized(loadNumber) =>
                    \E d \in DriverIds : drivers[d].loads = <<loadNumber>>)
    /\ [][\A d \in DriverIds :
            (/\ drivers[d].isScheduling
             /\ Oversized(drivers[d].loads[1])
             /\ drivers' # drivers)
                => /\ ~drivers'[d].isScheduling
                   /\ drivers'[d].loads = drivers[d].loads]_vars

C6_Witness ==
    /\ pc = "loop"
    /\ Len(drivers) = 2
    /\ ~drivers[1].isScheduling
    /\ Oversized(drivers[1].loads[1])
    /\ drivers[2].isScheduling
    /\ Oversized(drivers[2].loads[1])

\* C7: a driver whose isScheduling is false is the same after every step
\* (flag, route and driveHours), and findSchedulingDriver does not return it.
C7_FinalizedIsTerminal ==
    [][\A d \in DriverIds :
        ~drivers[d].isScheduling =>
            /\ d <= Len(drivers')
            /\ drivers'[d] = drivers[d]
            /\ FindSchedulingDriver(drivers') # d]_vars

C7_Witness ==
    /\ Len(drivers) = 3
    /\ ~drivers[1].isScheduling
    /\ ~drivers[2].isScheduling
    /\ pc = "done"

\* the hours of a route up to its last dropoff: homeToDropoff of the first
\* load and the RouteTime legs between consecutive loads
LegHours(from, to) ==
    LET routeTimes == RowOf(df, from).routeTimes
        k == CHOOSE k \in 1..Len(routeTimes) : routeTimes[k].loadNumber = to
    IN  routeTimes[k].currentDropoffToNextDropoff

RECURSIVE HoursToLastDropoff(_, _)
HoursToLastDropoff(loads, k) ==
    IF k = 1 THEN HomeToDropoff(loads[1])
    ELSE HoursToLastDropoff(loads, k - 1) + LegHours(loads[k - 1], loads[k])

\* C8: when a run over at least one load completes, no driver is scheduling,
\* and the driver of the load assigned last has the hours to its last dropoff
\* plus, once, the dropoffToHome of that load.
C8_ClosingStep ==
    (pc = "done" /\ Len(df) >= 1) =>
        /\ \A d \in DriverIds : ~drivers[d].isScheduling
        /\ \E d \in DriverIds :
            /\ LastLoad(drivers[d]) = loadsScheduled[Len(loadsScheduled)]
            /\ drivers[d].driveHours =
                   HoursToLastDropoff(drivers[d].loads, Len(drivers[d].loads))
                       + DropoffToHome(LastLoad(drivers[d]))

C8_Witness ==
    /\ pc = "done"
    /\ Len(drivers) = 2
    /\ Len(drivers[1].loads) = 2
    /\ DropoffToHome(LastLoad(drivers[2])) > 0
    /\ HomeToDropoff(LastLoad(drivers[2])) <= MaxDriveHours

\* the RouteTime edges from the last load of a route to the unassigned loads
Candidates(driver) ==
    LET routeTimes == RowOf(df, LastLoad(driver)).routeTimes
    IN  {routeTimes[k] : k \in {j \in 1..Len(routeTimes) :
            routeTimes[j].loadNumber \notin Range(loadsScheduled)}}

NearestCandidates(driver) ==
    {c \in Candidates(driver) :
        \A o \in Candidates(driver) :
            c.currentDropoffToNextDropoffToHome <= o.currentDropoffToNextDropoffToHome}

\* C10: in a continuation step a candidate of smallest total hours is
\* assigned if and only if driveHours plus its total hours is at most 12;
\* otherwise the step charges dropoffToHome of the last load, clears
\* isScheduling and assigns nothing, so the refused load stays unassigned.
C10_FeasibilityTest ==
    [][\A d \in DriverIds :
        (/\ pc = "loop"
         /\ ~AllAssigned
         /\ d = FindSchedulingDriver(drivers))
            => \E c \in NearestCandidates(drivers[d]) :
                IF drivers[d].driveHours + c.currentDropoffToNextDropoffToHome
                       <= MaxDriveHours
                THEN /\ drivers'[d].loads = Append(drivers[d].loads, c.loadNumber)
                     /\ drivers'[d].isScheduling
                     /\ loadsScheduled' = Append(loadsScheduled, c.loadNumber)
                ELSE /\ drivers'[d].loads = drivers[d].loads
                     /\ ~drivers'[d].isScheduling
                     /\ drivers'[d].driveHours =
                            drivers[d].driveHours + DropoffToHome(LastLoad(drivers[d]))
                     /\ loadsScheduled' = loadsScheduled
                     /\ c.loadNumber \notin Range(loadsScheduled')]_vars

\* two loads, the second refused as a continuation of the first although
\* the first driver is under the cap: two drivers with one load each
C10_Witness ==
    /\ pc = "done"
    /\ Len(df) = 2
    /\ Len(drivers) = 2
    /\ Len(drivers[1].loads) = 1
    /\ Len(drivers[2].loads) = 1
    /\ HomeToDropoff(drivers[1].loads[1]) < MaxDriveHours
    /\ HomeToDropoff(drivers[1].loads[1])
           + LegHours(drivers[1].loads[1], drivers[2].loads[1])
           <= MaxDriveHours

\* C11: a scheduling driver's driveHours are homeToDropoff of its first load
\* plus the currentDropoffToNextDropoff of every continuation (the way home
\* left out); a finalized driver has dropoffToHome of its last load on top,
\* once.
C11_DriveTimeAccounting ==
    \A d \in DriverIds :
        Len(drivers[d].loads) >= 1 =>
            drivers[d].driveHours =
                HoursToLastDropoff(drivers[d].loads, Len(drivers[d].loads))
                    + (IF drivers[d].isScheduling THEN 0
                       ELSE DropoffToHome(LastLoad(drivers[d])))

C11_Witness ==
    \E d \in DriverIds :
        /\ ~drivers[d].isScheduling
        /\ Len(drivers[d].loads) = 3
        /\ LegHours(drivers[d].loads[1], drivers[d].loads[2]) > 0
        /\ DropoffToHome(drivers[d].loads[2]) > 0
        /\ DropoffToHome(LastLoad(drivers[d])) > 0

\* the row of the frame that holds loadNumber
Position(loadNumber) ==
    CHOOSE i \in 1..Len(df) : df[i].loadNumber = loadNumber

\* the loads not yet scheduled when loadNumber was
UnassignedBefore(loadNumber) ==
    LET at == CHOOSE i \in 1..Len(loadsScheduled) : loadsScheduled[i] = loadNumber
    IN  LoadNumbers \ {loadsScheduled[i] : i \in 1..(at - 1)}

\* C12 as stated: the first load of every route had the smallest
\* homeToDropoff of the loads then unassigned and, of those equal to it, the
\* smallest load number.
C12_FirstLoadByIdentifier ==
    \A d \in DriverIds :
        Len(drivers[d].loads) >= 1 =>
            \A other \in UnassignedBefore(drivers[d].loads[1]) :
                \/ HomeToDropoff(drivers[d].loads[1]) < HomeToDropoff(other)
                \/ /\ HomeToDropoff(drivers[d].loads[1]) = HomeToDropoff(other)
                   /\ drivers[d].loads[1] <= other

\* C12 amended: the first load of every route had the smallest homeToDropoff
\* of the loads then unassigned and, of those equal to it, the earliest row
\* of the input.
C12_FirstLoadByPosition ==
    \A d \in DriverIds :
        Len(drivers[d].loads) >= 1 =>
            \A other \in UnassignedBefore(drivers[d].loads[1]) :
                \/ HomeToDropoff(drivers[d].loads[1]) < HomeToDropoff(other)
                \/ /\ HomeToDropoff(drivers[d].loads[1]) = HomeToDropoff(other)
                   /\ Position(drivers[d].loads[1]) <= Position(other)

C12_Witness ==
    \E d \in DriverIds :
        /\ Len(drivers[d].loads) >= 1
        /\ \E other \in UnassignedBefore(drivers[d].loads[1]) :
            /\ HomeToDropoff(other) = HomeToDropoff(drivers[d].loads[1])
            /\ other < drivers[d].loads[1]
        /\ \E other \in UnassignedBefore(drivers[d].loads[1]) :
            HomeToDropoff(other) > HomeToDropoff(drivers[d].loads[1])

\* a continuation step is about to run for driver d
ContinuationDue(d) ==
    /\ pc = "loop"
    /\ Len(loadsScheduled) < Len(df)
    /\ d = FindSchedulingDriver(drivers)
    /\ Len(drivers[d].loads) >= 1

TotalHours(from, to) ==
    LET routeTimes == RowOf(df, from).routeTimes
        k == CHOOSE k \in 1..Len(routeTimes) : routeTimes[k].loadNumber = to
    IN  routeTimes[k].currentDropoffToNextDropoffToHome

\* C13 as stated: a continuation step appends, if anything, the candidate of
\* smallest total hours that has the smallest load number of those equal to
\* it, and refuses only when that candidate fails the test.
C13_ContinuationByIdentifier ==
    [][\A d \in DriverIds :
        ContinuationDue(d) =>
            \E c \in NearestCandidates(drivers[d]) :
                /\ \A o \in NearestCandidates(drivers[d]) : c.loadNumber <= o.loadNumber
                /\ IF drivers'[d].loads # drivers[d].loads
                   THEN drivers'[d].loads = Append(drivers[d].loads, c.loadNumber)
                   ELSE drivers[d].driveHours + c.currentDropoffToNextDropoffToHome
                            > MaxDriveHours]_vars

\* C13 amended: a continuation step appends, if anything, the candidate of
\* smallest total hours that comes first in the input of those equal to it,
\* and refuses only when that candidate fails the test.
C13_ContinuationByPosition ==
    [][\A d \in DriverIds :
        ContinuationDue(d) =>
            \E c \in NearestCandidates(drivers[d]) :
                /\ \A o \in NearestCandidates(drivers[d]) :
                       Position(c.loadNumber) <= Position(o.loadNumber)
                /\ IF drivers'[d].loads # drivers[d].loads
                   THEN drivers'[d].loads = Append(drivers[d].loads, c.loadNumber)
                   ELSE drivers[d].driveHours + c.currentDropoffToNextDropoffToHome
                            > MaxDriveHours]_vars

C13_Witness ==
    \E d \in DriverIds :
        /\ Len(drivers[d].loads) >= 2
        /\ \E other \in UnassignedBefore(drivers[d].loads[2]) :
            /\ TotalHours(drivers[d].loads[1], other)
                   = TotalHours(drivers[d].loads[1], drivers[d].loads[2])
            /\ other < drivers[d].loads[2]
            /\ HomeToDropoff(other) # HomeToDropoff(drivers[d].loads[2])

\* s is t or t cut short at its end
IsPrefix(s, t) ==
    /\ Len(s) <= Len(t)
    /\ \A i \in 1..Len(s) : s[i] = t[i]

\* C14: every step keeps every driver, keeps its route as the beginning of
\* its new route, does not lower its driveHours, and keeps every scheduled
\* load scheduled.
C14_MonotoneDriverState ==
    [][/\ Len(drivers) <= Len(drivers')
       /\ \A d \in DriverIds :
            /\ IsPrefix(drivers[d].loads, drivers'[d].loads)
            /\ drivers[d].driveHours <= drivers'[d].driveHours
       /\ IsPrefix(loadsScheduled, loadsScheduled')
       /\ Range(loadsScheduled) \subseteq Range(loadsScheduled')]_vars

C14_Witness ==
    /\ Len(drivers) = 2
    /\ Len(drivers[1].loads) = 2
    /\ drivers[1].driveHours > HomeToDropoff(drivers[1].loads[1])
    /\ drivers[1].loads[1] # drivers[1].loads[2]
    /\ Len(loadsScheduled) = 3

\* C15: only the driver made last can be scheduling, so at most one driver
\* is, and findSchedulingDriver returns that driver or None.
C15_OnlyLastDriverSchedules ==
    /\ \A d \in DriverIds : drivers[d].isScheduling => d = Len(drivers)
    /\ FindSchedulingDriver(drivers) \in {0, Len(drivers)}

C15_Witness ==
    /\ Len(drivers) = 3
    /\ ~drivers[1].isScheduling
    /\ ~drivers[2].isScheduling
    /\ drivers[3].isScheduling
    /\ FindSchedulingDriver(drivers) = 3

\* C16: a driver with two or more loads can get home within the cap: while
\* scheduling, driveHours plus dropoffToHome of its last load is at most 12,
\* and once finalized its driveHours are; a driver above the cap has one load.
C16_MultiLoadDriverWithinCap ==
    \A d \in DriverIds :
        /\ Len(drivers[d].loads) >= 2 =>
            IF drivers[d].isScheduling
            THEN drivers[d].driveHours + DropoffToHome(LastLoad(drivers[d]))
                     <= MaxDriveHours
            ELSE drivers[d].driveHours <= MaxDriveHours
        /\ drivers[d].driveHours > MaxDriveHours => Len(drivers[d].loads) = 1

C16_Witness ==
    /\ pc = "done"
    /\ \E d \in DriverIds :
        /\ Len(drivers[d].loads) >= 2
        /\ drivers[d].driveHours = MaxDriveHours
        /\ DropoffToHome(LastLoad(drivers[d])) > 0
    /\ \E d \in DriverIds :
        /\ Len(drivers[d].loads) = 1
        /\ drivers[d].driveHours > MaxDriveHours
        /\ HomeToDropoff(drivers[d].loads[1]) <= MaxDriveHours

\* C17: when a step of the loop finalizes a driver, every edge from its last
\* load to an unassigned load fails the test: driveHours plus the edge's
\* total hours is above 12.
C17_NoFeasibleCandidateDiscarded ==
    [][\A d \in DriverIds :
        (/\ pc = "loop"
         /\ drivers[d].isScheduling
         /\ ~drivers'[d].isScheduling)
            => \A c \in Candidates(drivers[d]) :
                   drivers[d].driveHours + c.currentDropoffToNextDropoffToHome
                       > MaxDriveHours]_vars

\* a driver just finalized in the loop with two loads of different total
\* hours still unassigned, the farther one nearer by its leg alone
C17_Witness ==
    /\ pc = "loop"
    /\ Len(drivers) >= 1
    /\ ~drivers[Len(drivers)].isScheduling
    /\ \E c, o \in Candidates(drivers[Len(drivers)]) :
        /\ c.currentDropoffToNextDropoffToHome < o.currentDropoffToNextDropoffToHome
        /\ c.currentDropoffToNextDropoff > o.currentDropoffToNextDropoff

\* C18: whenever an iteration is about to run for a driver with loads, some
\* edge from its last load goes to an unassigned load, and no run raises in
\* the loop: an error state has no driver (it is the closing step's).
C18_CandidatesNeverEmpty ==
    /\ \A d \in DriverIds :
        (/\ pc = "loop"
         /\ LoopCondition
         /\ d = FindSchedulingDriver(drivers)
         /\ Len(drivers[d].loads) >= 1)
            => Candidates(drivers[d]) # {}
    /\ pc = "error" => (drivers = <<>> /\ iterations = 0)

C18_Witness ==
    /\ pc = "loop"
    /\ LoopCondition
    /\ Len(df) = 3
    /\ Len(drivers) = 1
    /\ drivers[1].isScheduling
    /\ Len(drivers[1].loads) = 2
    /\ Cardinality(Candidates(drivers[1])) = 1

\* C19: in every state every driver has a load, and there are no more
\* drivers than scheduled loads.
C19_EveryDriverHasALoad ==
    /\ \A d \in DriverIds : Len(drivers[d].loads) >= 1
    /\ Len(drivers) <= Len(loadsScheduled)

C19_Witness ==
    /\ Len(drivers) = 3
    /\ Len(loadsScheduled) = 3
    /\ pc = "done"

\* C20: when the loop is left on an input of at least one load, exactly one
\* driver is scheduling and its route is not empty, so the closing step does
\* not raise.
C20_ClosingFindsDriver ==
    /\ (pc = "close" /\ Len(df) >= 1) =>
        /\ Cardinality({d \in DriverIds : drivers[d].isScheduling}) = 1
        /\ FindSchedulingDriver(drivers) # 0
        /\ Len(drivers[FindSchedulingDriver(drivers)].loads) >= 1
    /\ pc = "error" => Len(df) = 0

C20_Witness ==
    /\ pc = "close"
    /\ Len(df) = 3
    /\ Len(drivers) = 2
    /\ ~drivers[1].isScheduling
    /\ Len(drivers[1].loads) = 2
    /\ drivers[2].isScheduling
    /\ Len(drivers[2].loads) = 1

====
